---- MODULE Spec2Model ----
(***************************************************************************)
(* Model of the explorer test fixture of jormungandr-automation            *)
(* (testing/jormungandr-automation/src/jormungandr/explorer/mod.rs):       *)
(* the Explorer facade, the shared ExplorerProcess and its Drop, the       *)
(* bootstrap wait of Explorer::new, the query methods and compare_schema.   *)
(***************************************************************************)
EXTENDS Integers, Sequences, FiniteSets, TLC

\* ------------------------------------------------------------------ bounds
\* Number of clones of the original handle the model may create.
MaxClones == 2
\* Longest time (in seconds) one bootstrap probe may take before it returns.
MaxProbeTime == 1
\* Largest query parameter (limit, length, epoch number, id) drawn as input.
MaxArg == 1
\* Number of distinct payloads the service may answer with.
MaxPayload == 2
\* Longest schema file (in bytes) compare_schema is run on.
MaxSchemaLen == 2

\* ------------------------------------------------------- program constants
\* Wait::new(Duration::from_secs(1), 10)
WaitSleepSecs == 1
WaitAttempts == 10

\* ------------------------------------------------------------------- state
VARIABLES
    \* Explorer::new
    pcNew,        \* position inside Explorer::new
    current,      \* Wait.current: attempts consumed so far
    probes,       \* HEAD requests sent by the bootstrap loop
    sleeps,       \* calls of thread::sleep made by Wait::advance
    slept,        \* seconds spent sleeping
    elapsed,      \* seconds spent in the bootstrap loop (sleeps and probes)
    lastProbe,    \* outcome of the most recent probe
    port,         \* explorer_port returned by get_available_port()
    \* ExplorerProcess and the child process
    logs_dir,     \* ExplorerProcess.logs_dir: "None" or "Some"
    handler,      \* ExplorerProcess.handler: "Absent" (no struct), "Some", "None"
    proc,         \* the child: "none", "running", "exited", "killed"
    strong,       \* strong count of Arc<ExplorerProcess>
    spawns,       \* explorer processes spawned so far
    \* Explorer handles
    hState,       \* handle -> "unborn" | "alive" | "released"
    print_log,    \* handle -> Explorer.print_log
    hClientPrint, \* handle -> print flag of its GraphQlClient
    hThread,      \* handle -> thread that owns it
    hUrl,         \* handle -> base url held by its GraphQlClient
    unwound,      \* handle -> it was dropped while its thread was unwinding
    panicking,    \* thread -> std::thread::panicking()
    aborted,      \* the test process aborted (panic while panicking)
    \* ExplorerProcess::drop
    tdPc,         \* position inside ExplorerProcess::drop
    tdThread,     \* thread that runs ExplorerProcess::drop
    tdPanicking,  \* the thread was unwinding when it entered the drop
    dropRuns,     \* times ExplorerProcess::drop was entered
    killCalls,    \* times handler.kill() was called
    waitCalls,    \* times handler.wait_with_output() was called
    killResult,   \* what handler.kill() returned: "none", "ok", "err"
    tdOutput,     \* output collected by wait_with_output
    logFile,      \* <logs_dir>/explorer.log: whether it was written, and with what
    writeTries,   \* calls of std::fs::write
    reported,     \* "Could not write explorer logs to disk" was printed
    \* queries
    lastCall,     \* record of the most recent facade call
    prevCall,     \* record of the facade call before it
    \* compare_schema
    files,        \* path -> content of the schema file at that path
    schemaRun     \* record of the most recent compare_schema call

bootVars == <<pcNew, current, probes, sleeps, slept, elapsed, lastProbe, port>>
procVars == <<logs_dir, handler, proc, strong, spawns>>
handleVars == <<hState, print_log, hClientPrint, hThread, hUrl, unwound>>
threadVars == <<panicking, aborted>>
tdVars == <<tdPc, tdThread, tdPanicking, dropRuns, killCalls, waitCalls, killResult,
            tdOutput, logFile, writeTries, reported>>
queryVars == <<lastCall, prevCall>>
schemaVars == <<files, schemaRun>>
vars == <<bootVars, procVars, handleVars, threadVars, tdVars, queryVars, schemaVars>>

Handles == 0..MaxClones
Threads == {"t1", "t2"}
NoThread == "none"
NoCall == [method |-> "none"]
\* Ports get_available_port() may hand out.
Ports == {"8080", "8081"}
NoUrl == <<>>

\* format!("127.0.0.1:{}", explorer_port)
ListenAddress(p) == <<"127.0.0.1:", p>>

\* GraphQlClient::new(address): the client starts with printing on.
ClientPrintDefault == TRUE

\* GraphQlClient::new(address): the client's base url.
BaseUrl(address) == <<"http://">> \o address

\* What the child wrote to its two pipes (both piped by Explorer::new).
ProcessOutput == [stdout |-> "stdout bytes", stderr |-> "stderr bytes"]
NoOutput == [stdout |-> "", stderr |-> ""]

\* A file on disk: absent, or written with a sequence of byte blocks.
NoFile == [written |-> FALSE, content |-> <<>>]
FileWith(blocks) == [written |-> TRUE, content |-> blocks]

AliveHandles == {h \in Handles : hState[h] = "alive"}

\* ExplorerProcess::drop is running / is running on thread t.
TdRunning == tdPc \in {"take", "kill", "wait", "check", "write"}
Busy(t) == TdRunning /\ tdThread = t

\* ------------------------------------------------------------ environment
\* The child may exit on its own at any time while it runs.
ProcessExits ==
    /\ proc = "running"
    /\ ~aborted
    /\ proc' = "exited"
    /\ UNCHANGED <<bootVars, logs_dir, spawns, handler, strong, handleVars, threadVars,
                   tdVars, queryVars, schemaVars>>

\* A test thread starts unwinding (a failed assertion in the test body).
Panic(t) ==
    /\ pcNew = "returned"
    /\ ~aborted
    /\ ~panicking[t]
    /\ ~Busy(t)
    /\ panicking' = [panicking EXCEPT ![t] = TRUE]
    /\ UNCHANGED <<bootVars, procVars, handleVars, aborted, tdVars, queryVars, schemaVars>>

\* ---------------------------------------------------------------- handles
\* A thread can use a handle it owns while it is neither unwinding nor inside
\* ExplorerProcess::drop.
CanUse(h) ==
    /\ pcNew = "returned"
    /\ ~aborted
    /\ hState[h] = "alive"
    /\ ~panicking[hThread[h]]
    /\ ~Busy(hThread[h])

\* The handle the next clone gets: the smallest one not yet created.
NextHandle == CHOOSE h \in Handles :
    hState[h] = "unborn" /\ \A g \in Handles : hState[g] = "unborn" => h <= g

\* Variant: a clone launches an explorer of its own on another port.
CloneRelaunches(h, t) ==
    /\ CanUse(h)
    /\ \E g \in Handles : hState[g] = "unborn"
    /\ ~panicking[t] /\ ~Busy(t)
    /\ hState' = [hState EXCEPT ![NextHandle] = "alive"]
    /\ print_log' = [print_log EXCEPT ![NextHandle] = print_log[h]]
    /\ hClientPrint' = [hClientPrint EXCEPT ![NextHandle] = hClientPrint[h]]
    /\ hThread' = [hThread EXCEPT ![NextHandle] = t]
    /\ \E p \in Ports \ {port} :
          hUrl' = [hUrl EXCEPT ![NextHandle] = BaseUrl(ListenAddress(p))]
    /\ strong' = strong + 1
    /\ spawns' = spawns + 1
    /\ UNCHANGED <<bootVars, logs_dir, handler, proc, unwound, threadVars, tdVars,
                   queryVars, schemaVars>>

\* #[derive(Clone)] on Explorer: client and print_log are copied, the Arc is
\* cloned (strong count + 1). The clone is handed to thread t.
Clone(h, t) ==
    /\ CanUse(h)
    /\ \E g \in Handles : hState[g] = "unborn"
    /\ ~panicking[t] /\ ~Busy(t)
    /\ hState' = [hState EXCEPT ![NextHandle] = "alive"]
    /\ print_log' = [print_log EXCEPT ![NextHandle] = print_log[h]]
    /\ hClientPrint' = [hClientPrint EXCEPT ![NextHandle] = hClientPrint[h]]
    /\ hThread' = [hThread EXCEPT ![NextHandle] = t]
    /\ hUrl' = [hUrl EXCEPT ![NextHandle] = hUrl[h]]
    /\ strong' = strong + 1
    /\ UNCHANGED <<bootVars, logs_dir, spawns, handler, proc, unwound, threadVars, tdVars,
                   queryVars, schemaVars>>

\* Variant: the flag is shared by all handles of the launch.
DisableLogsShared(h) ==
    /\ CanUse(h)
    /\ print_log' = [g \in Handles |-> FALSE]
    /\ hClientPrint' = [g \in Handles |-> FALSE]
    /\ UNCHANGED <<bootVars, procVars, hState, hThread, hUrl, unwound, threadVars, tdVars,
                   queryVars, schemaVars>>

\* Explorer::disable_logs
DisableLogs(h) ==
    /\ CanUse(h)
    /\ print_log' = [print_log EXCEPT ![h] = FALSE]
    /\ hClientPrint' = [hClientPrint EXCEPT ![h] = FALSE]
    /\ UNCHANGED <<bootVars, procVars, hState, hThread, hUrl, unwound, threadVars, tdVars,
                   queryVars, schemaVars>>

\* Explorer::enable_logs
EnableLogs(h) ==
    /\ CanUse(h)
    /\ print_log' = [print_log EXCEPT ![h] = TRUE]
    /\ hClientPrint' = [hClientPrint EXCEPT ![h] = TRUE]
    /\ UNCHANGED <<bootVars, procVars, hState, hThread, hUrl, unwound, threadVars, tdVars,
                   queryVars, schemaVars>>

\* Dropping one Arc<ExplorerProcess>: the reference whose release takes the
\* strong count from 1 to 0 is the one that runs ExplorerProcess::drop.
\* Variant: every handle owns the process and tears it down when released.
LastReferenceEveryHandle(h, count) == TRUE
\* Variant: the original handle is the owner and tears down when released.
LastReferenceOriginal(h, count) == h = 0

LastReference(h, count) == count = 1

\* An Explorer value goes out of scope on its owning thread (normally or
\* while the thread unwinds): its Arc is dropped, and the last one enters
\* ExplorerProcess::drop on that thread.
Release(h) ==
    /\ pcNew = "returned"
    /\ ~aborted
    /\ hState[h] = "alive"
    /\ ~Busy(hThread[h])
    /\ hState' = [hState EXCEPT ![h] = "released"]
    /\ unwound' = [unwound EXCEPT ![h] = panicking[hThread[h]]]
    /\ strong' = strong - 1
    /\ IF LastReference(h, strong)
       THEN /\ tdPc' = "take"
            /\ tdThread' = hThread[h]
            /\ tdPanicking' = panicking[hThread[h]]
            /\ dropRuns' = dropRuns + 1
       ELSE UNCHANGED <<tdPc, tdThread, tdPanicking, dropRuns>>
    /\ UNCHANGED <<bootVars, logs_dir, spawns, handler, proc, print_log, hClientPrint, hThread, hUrl,
                   threadVars,
                   killCalls, waitCalls, killResult, tdOutput, logFile,
                   writeTries, reported, queryVars, schemaVars>>

\* ------------------------------------------------- ExplorerProcess::drop
\* Variant: the handler is taken but neither killed nor waited for.
TdTakeSkipsKill ==
    /\ tdPc = "take"
    /\ ~aborted
    /\ handler' = "None"
    /\ tdPc' = "check"
    /\ UNCHANGED <<bootVars, logs_dir, spawns, proc, strong, handleVars, threadVars,
                   tdThread, tdPanicking, dropRuns, killCalls, waitCalls, killResult, tdOutput,
                   logFile, writeTries, reported, queryVars, schemaVars>>

\* if let Some(mut handler) = self.handler.take() { .. } else { return; }
TdTake ==
    /\ tdPc = "take"
    /\ ~aborted
    /\ IF handler = "Some"
       THEN handler' = "None" /\ tdPc' = "kill"
       ELSE handler' = handler /\ tdPc' = "done"
    /\ UNCHANGED <<bootVars, logs_dir, spawns, proc, strong, handleVars, threadVars,
                   tdThread, tdPanicking, dropRuns, killCalls, waitCalls, killResult, tdOutput,
                   logFile, writeTries, reported, queryVars, schemaVars>>

\* What Child::kill can return: a running child is killed; for a child that
\* already exited the call reports success or an error, by platform.
KillResults(p) == IF p = "running" THEN {"ok"} ELSE {"ok", "err"}

\* Variant: the result of kill is unwrapped, so its error panics the drop.
TdKillUnwrap ==
    /\ tdPc = "kill"
    /\ ~aborted
    /\ \E r \in KillResults(proc) :
         /\ killResult' = r
         /\ IF r = "ok"
            THEN tdPc' = "wait" /\ UNCHANGED threadVars
            ELSE IF panicking[tdThread]
            THEN tdPc' = "aborted" /\ aborted' = TRUE /\ panicking' = panicking
            ELSE /\ tdPc' = "panicked"
                 /\ panicking' = [panicking EXCEPT ![tdThread] = TRUE]
                 /\ aborted' = aborted
    /\ proc' = IF proc = "running" THEN "killed" ELSE proc
    /\ killCalls' = killCalls + 1
    /\ UNCHANGED <<bootVars, logs_dir, spawns, handler, strong, handleVars,
                   tdThread, tdPanicking, dropRuns, waitCalls, tdOutput, logFile, writeTries,
                   reported, queryVars, schemaVars>>

\* let _ = handler.kill();
TdKill ==
    /\ tdPc = "kill"
    /\ ~aborted
    /\ \E r \in KillResults(proc) : killResult' = r
    /\ proc' = IF proc = "running" THEN "killed" ELSE proc
    /\ killCalls' = killCalls + 1
    /\ tdPc' = "wait"
    /\ UNCHANGED <<bootVars, logs_dir, spawns, handler, strong, handleVars, threadVars,
                   tdThread, tdPanicking, dropRuns, waitCalls, tdOutput, logFile, writeTries,
                   reported, queryVars, schemaVars>>

\* handler.wait_with_output().unwrap(): returns once the child has exited,
\* with its collected output or an I/O error; unwrap panics on the error, and
\* a panic on a thread that is already unwinding aborts the test process.
TdWait ==
    /\ tdPc = "wait"
    /\ ~aborted
    /\ proc \in {"killed", "exited"}
    /\ waitCalls' = waitCalls + 1
    /\ \E ok \in BOOLEAN :
         IF ok
         THEN /\ tdOutput' = ProcessOutput
              /\ tdPc' = "check"
              /\ UNCHANGED threadVars
         ELSE /\ tdOutput' = tdOutput
              /\ IF panicking[tdThread]
                 THEN tdPc' = "aborted" /\ aborted' = TRUE /\ panicking' = panicking
                 ELSE /\ tdPc' = "panicked"
                      /\ panicking' = [panicking EXCEPT ![tdThread] = TRUE]
                      /\ aborted' = aborted
    /\ UNCHANGED <<bootVars, procVars, handleVars, tdThread, tdPanicking, dropRuns, killCalls,
                   killResult, logFile, writeTries, reported, queryVars, schemaVars>>

\* if std::thread::panicking() { if let Some(logs_dir) = &self.logs_dir { println!(..)
\* Variant: the logs are persisted at every teardown with a directory.
PersistsLogsAlways(isPanicking, dir) == dir = "Some"

PersistsLogs(isPanicking, dir) == isPanicking /\ dir = "Some"

\* Variant: a failure seen on any thread of the test makes the logs persist.
TdCheckAnyThread ==
    /\ tdPc = "check"
    /\ ~aborted
    /\ tdPc' = IF PersistsLogs(\E t \in Threads : panicking[t], logs_dir)
               THEN "write" ELSE "done"
    /\ UNCHANGED <<bootVars, procVars, handleVars, threadVars, tdThread, tdPanicking, dropRuns,
                   killCalls, waitCalls, killResult, tdOutput, logFile, writeTries,
                   reported, queryVars, schemaVars>>

TdCheck ==
    /\ tdPc = "check"
    /\ ~aborted
    /\ tdPc' = IF PersistsLogs(panicking[tdThread], logs_dir) THEN "write" ELSE "done"
    /\ UNCHANGED <<bootVars, procVars, handleVars, threadVars, tdThread, tdPanicking, dropRuns,
                   killCalls, waitCalls, killResult, tdOutput, logFile, writeTries,
                   reported, queryVars, schemaVars>>

\* Variant: both captured streams are persisted.
LogContentBothStreams(output) == <<output.stdout, output.stderr>>

\* What is handed to std::fs::write: output.stdout.
LogContent(output) == <<output.stdout>>

\* Variant: the result of the write is unwrapped; the thread is unwinding at
\* this point, so the panic aborts the test process.
TdWriteUnwrap ==
    /\ tdPc = "write"
    /\ ~aborted
    /\ writeTries' = writeTries + 1
    /\ \E ok \in BOOLEAN :
         IF ok
         THEN logFile' = FileWith(LogContent(tdOutput)) /\ tdPc' = "done"
              /\ aborted' = aborted
         ELSE logFile' = logFile /\ tdPc' = "aborted" /\ aborted' = TRUE
    /\ UNCHANGED <<bootVars, procVars, handleVars, panicking, tdThread, tdPanicking,
                   dropRuns, killCalls, waitCalls, killResult, tdOutput, reported,
                   queryVars, schemaVars>>

\* std::fs::write(logs_dir.join("explorer.log"), output.stdout)
\*     .unwrap_or_else(|e| eprint!("Could not write explorer logs to disk: {}", e));
TdWrite ==
    /\ tdPc = "write"
    /\ ~aborted
    /\ writeTries' = writeTries + 1
    /\ \E ok \in BOOLEAN :
         IF ok
         THEN logFile' = FileWith(LogContent(tdOutput)) /\ reported' = reported
         ELSE logFile' = logFile /\ reported' = TRUE
    /\ tdPc' = "done"
    /\ UNCHANGED <<bootVars, procVars, handleVars, threadVars, tdThread, tdPanicking, dropRuns,
                   killCalls, waitCalls, killResult, tdOutput, queryVars, schemaVars>>

\* ---------------------------------------------------------------- queries
\* The query methods of the facade that decode the response, and all of them.
TypedMethods == {"address", "stake_pools", "blocks", "last_block",
                 "blocks_at_chain_length", "epoch", "stake_pool", "settings",
                 "vote_plans", "transaction"}
Methods == TypedMethods \cup {"run"}

\* The parameters a method is called with (one number stands for each).
ArgsOf(m) == IF m \in {"last_block", "settings"} THEN {0} ELSE 1..MaxArg

\* u32::to_string / Hash::to_string: the decimal text of n.
to_string(n) == <<"text", n>>

\* X::build_query(x::Variables { .. }): the variables of each query kind.
Variables(m, n) ==
    CASE m = "address" -> <<<<"bech32", to_string(n)>>>>
      [] m = "stake_pools" -> <<<<"first", n>>>>
      [] m = "blocks" -> <<<<"last", n>>>>
      [] m = "last_block" -> <<>>
      [] m = "blocks_at_chain_length" -> <<<<"length", to_string(n)>>>>
      [] m = "epoch" -> <<<<"id", to_string(n)>>, <<"blocks_limit", n>>>>
      [] m = "stake_pool" -> <<<<"id", n>>, <<"first", n>>>>
      [] m = "settings" -> <<>>
      [] m = "vote_plans" -> <<<<"first", n>>>>
      [] m = "transaction" -> <<<<"id", to_string(n)>>>>
      [] m = "run" -> <<<<"caller", n>>>>

BuildQuery(m, n) == [query |-> m, variables |-> Variables(m, n)]

\* What the network and the service do with one request: no response at all,
\* a response whose body is not the JSON envelope, or an envelope carrying
\* payload p.
TransportFailure == [transport |-> "fail", json |-> FALSE, payload |-> 0]
Malformed == [transport |-> "ok", json |-> FALSE, payload |-> 0]
Valid(p) == [transport |-> "ok", json |-> TRUE, payload |-> p]
NetOutcomes == {TransportFailure, Malformed} \cup {Valid(p) : p \in 1..MaxPayload}

\* GraphQlClient::run: one HTTP request carrying the query is sent to the
\* base url; the raw response comes back, or the client's error.
ClientRun(url, print, query, net) ==
    [requests |-> <<[url |-> url, body |-> query]>>,
     printed |-> print,
     ok |-> net.transport = "ok",
     response |-> net]

\* reqwest::blocking::Response::json(): the body parsed as the envelope, or a
\* reqwest::Error.
ResponseJson(response) ==
    [ok |-> response.json,
     value |-> [decoded |-> TRUE, body |-> response.payload],
     error |-> "reqwest::Error"]

\* The `?` on response.json(): From for ExplorerError picks the variant that
\* is declared #[from] for the error's type.
FromError(error) ==
    CASE error = "client::GraphQlClientError" -> "ClientError"
      [] error = "serde_json::Error" -> "SerializationError"
      [] error = "reqwest::Error" -> "ReqwestError"

\* Explorer::print_request
PrintRequest(printLog) == IF printLog THEN <<"print_request">> ELSE <<>>

\* Explorer::print_log
PrintLog(printLog) == IF printLog THEN <<"print_response">> ELSE <<>>

Ok(value) == [kind |-> "Ok", error |-> "none", value |-> value]
Err(error) == [kind |-> "Err", error |-> error, value |-> [decoded |-> FALSE, body |-> 0]]

\* address, stake_pools, blocks, last_block, blocks_at_chain_length, epoch,
\* stake_pool, settings, vote_plans, transaction: build the query, print it,
\* run it, decode the response, print it, return it.
TypedMethod(m, n, printLog, print, url, net) ==
    LET query == BuildQuery(m, n)
        ran == ClientRun(url, print, query, net)
        decoded == ResponseJson(ran.response)
        start == <<"build">> \o PrintRequest(printLog) \o <<"run">>
    IN  IF ~ran.ok
        THEN [method |-> m, arg |-> n, log |-> printLog, url |-> url, net |-> net,
              clientPrinted |-> ran.printed,
              requests |-> ran.requests,
              events |-> start,
              result |-> Err("ClientError")]
        ELSE IF ~decoded.ok
        THEN [method |-> m, arg |-> n, log |-> printLog, url |-> url, net |-> net,
              clientPrinted |-> ran.printed,
              requests |-> ran.requests,
              events |-> start \o <<"decode">>,
              result |-> Err(FromError(decoded.error))]
        ELSE [method |-> m, arg |-> n, log |-> printLog, url |-> url, net |-> net,
              clientPrinted |-> ran.printed,
              requests |-> ran.requests,
              events |-> start \o <<"decode">> \o PrintLog(printLog),
              result |-> Ok(decoded.value)]

\* Explorer::run: as above without the decoding; the raw response is returned.
RunMethod(n, printLog, print, url, net) ==
    LET query == BuildQuery("run", n)
        ran == ClientRun(url, print, query, net)
        start == PrintRequest(printLog) \o <<"run">>
    IN  IF ~ran.ok
        THEN [method |-> "run", arg |-> n, log |-> printLog, url |-> url, net |-> net,
              clientPrinted |-> ran.printed,
              requests |-> ran.requests,
              events |-> start,
              result |-> Err("ClientError")]
        ELSE [method |-> "run", arg |-> n, log |-> printLog, url |-> url, net |-> net,
              clientPrinted |-> ran.printed,
              requests |-> ran.requests,
              events |-> start \o PrintLog(printLog),
              result |-> Ok([decoded |-> FALSE, body |-> ran.response.payload])]

\* Variant: printing the response consumes it, so that with logging on the
\* caller gets an error instead of the response.
CallLogConsumesResponse(m, n, printLog, print, url, net) ==
    LET c == IF m = "run" THEN RunMethod(n, printLog, print, url, net)
             ELSE TypedMethod(m, n, printLog, print, url, net)
    IN  IF printLog /\ c.result.kind = "Ok"
        THEN [c EXCEPT !.result = Err("ReqwestError")]
        ELSE c

\* Variant: a failed request is sent a second time before giving up.
CallRetrying(m, n, printLog, print, url, net) ==
    LET c == IF m = "run" THEN RunMethod(n, printLog, print, url, net)
             ELSE TypedMethod(m, n, printLog, print, url, net)
    IN  IF c.result.error = "ClientError"
        THEN [c EXCEPT !.requests = @ \o @, !.events = @ \o <<"run">>]
        ELSE c

\* Variant: the request is printed after it has been sent.
CallPrintsAfterRun(m, n, printLog, print, url, net) ==
    LET c == IF m = "run" THEN RunMethod(n, printLog, print, url, net)
             ELSE TypedMethod(m, n, printLog, print, url, net)
    IN  IF printLog /\ m # "run"
        THEN [c EXCEPT !.events = <<"build", "run", "print_request">>
                                      \o SubSeq(@, 4, Len(@))]
        ELSE c

\* One call of a query method of the facade.
Call(m, n, printLog, print, url, net) ==
    IF m = "run" THEN RunMethod(n, printLog, print, url, net)
    ELSE TypedMethod(m, n, printLog, print, url, net)

\* LastBlockResponse::block_date: the block date embedded in the decoded
\* last-block response.
BlockDateOf(value) == [epoch |-> value.body, slot |-> value.body + value.body]

\* Variant: an error of last_block is swallowed and a default date returned.
CurrentTimeDefaulting(printLog, print, url, net) ==
    LET c == Call("last_block", 0, printLog, print, url, net)
    IN  [c EXCEPT !.method = "current_time",
                  !.result = IF c.result.kind = "Ok"
                             THEN [kind |-> "Value", date |-> BlockDateOf(c.result.value)]
                             ELSE [kind |-> "Value", date |-> [epoch |-> 0, slot |-> 0]]]

\* Explorer::current_time: self.last_block().unwrap().block_date()
CurrentTime(printLog, print, url, net) ==
    LET c == Call("last_block", 0, printLog, print, url, net)
    IN  [c EXCEPT !.method = "current_time",
                  !.result = IF c.result.kind = "Ok"
                             THEN [kind |-> "Value", date |-> BlockDateOf(c.result.value)]
                             ELSE [kind |-> "Panic", date |-> [epoch |-> 0, slot |-> 0]]]

\* Explorer::uri
Uri(h) == hUrl[h]

\* A thread calls a query method on a handle it owns.
Query(h, m, n, net) ==
    /\ CanUse(h)
    /\ prevCall' = lastCall
    /\ lastCall' = Call(m, n, print_log[h], hClientPrint[h], hUrl[h], net)
    /\ UNCHANGED <<bootVars, procVars, handleVars, threadVars, tdVars, schemaVars>>

\* A thread calls current_time on a handle it owns; the unwrap of an error
\* starts unwinding the thread.
QueryCurrentTime(h, net) ==
    /\ CanUse(h)
    /\ prevCall' = lastCall
    /\ lastCall' = CurrentTime(print_log[h], hClientPrint[h], hUrl[h], net)
    /\ panicking' = IF lastCall'.result.kind = "Panic"
                    THEN [panicking EXCEPT ![hThread[h]] = TRUE]
                    ELSE panicking
    /\ UNCHANGED <<bootVars, procVars, handleVars, aborted, tdVars, schemaVars>>

\* ----------------------------------------------------------- compare_schema
\* The bytes a schema file is made of, and the contents a file can have.
SchemaBytes == {"a", "b"}
Contents == UNION {[1..n -> SchemaBytes] : n \in 0..MaxSchemaLen}

\* The fixed path of the schema kept in the repository, and the paths a caller
\* passes as actual_schema_path.
ExpectedSchemaPath == "./jormungandr-automation/resources/explorer/graphql/schema.graphql"
ActualSchemaPaths == {"explorer/schema.graphql", "target/schema.graphql"}
SchemaPaths == ActualSchemaPaths \cup {ExpectedSchemaPath}

NoRun == [path |-> "none", warned |-> FALSE, outcome |-> "none",
          before |-> "none", beforeWarned |-> FALSE]

\* No compare_schema call has been made; the three files hold the same schema.
SchemaUntouched ==
    /\ files = [p \in SchemaPaths |-> <<>>]
    /\ schemaRun = NoRun

\* file::have_the_same_content
have_the_same_content(fs, path1, path2) == fs[path1] = fs[path2]

\* file::copy_file(from, to, overwrite), both files existing
copy_file(fs, from, to, overwrite) ==
    IF overwrite THEN [fs EXCEPT ![to] = fs[from]] ELSE fs

\* Variant: the copy goes from the expected file to the actual one.
CompareSchemaReversed(actual_schema_path) ==
    LET same == have_the_same_content(files, actual_schema_path, ExpectedSchemaPath)
    IN  /\ files' = IF ~same
                    THEN copy_file(files, ExpectedSchemaPath, actual_schema_path, TRUE)
                    ELSE files
        /\ schemaRun' = [path |-> actual_schema_path, warned |-> ~same,
                         outcome |-> "returned",
                         before |-> schemaRun.path, beforeWarned |-> schemaRun.warned]
        /\ UNCHANGED <<bootVars, procVars, handleVars, threadVars, tdVars, queryVars>>

\* compare_schema(actual_schema_path)
CompareSchema(actual_schema_path) ==
    LET same == have_the_same_content(files, actual_schema_path, ExpectedSchemaPath)
    IN  /\ files' = IF ~same
                    THEN copy_file(files, actual_schema_path, ExpectedSchemaPath, TRUE)
                    ELSE files
        /\ schemaRun' = [path |-> actual_schema_path, warned |-> ~same,
                         outcome |-> "returned",
                         before |-> schemaRun.path, beforeWarned |-> schemaRun.warned]
        /\ UNCHANGED <<bootVars, procVars, handleVars, threadVars, tdVars, queryVars>>

\* ----------------------------------------------------------- Explorer::new
\* What one bootstrap probe (HEAD http://<address>/) can come back with: no
\* response at all, or a response with some status.
ProbeOutcomes == {"transport_error", "status_200", "status_404", "status_500"}
ProbeResponses == ProbeOutcomes \ {"transport_error"}

\* Variant: only a 200 response counts as ready.
SendIsOkSuccessOnly(outcome) == outcome = "status_200"

\* reqwest's send() is Ok for every response received, whatever its status.
SendIsOk(outcome) == outcome # "transport_error"

\* Variant: one attempt too many.
TimeoutReachedOffByOne(cur) == cur > WaitAttempts

\* Wait::timeout_reached
TimeoutReached(cur) == cur >= WaitAttempts

\* The state before Explorer::new is called on thread t1.
NotLaunched ==
    /\ pcNew = "start"
    /\ current = 0 /\ probes = 0 /\ sleeps = 0 /\ slept = 0 /\ elapsed = 0
    /\ lastProbe = "none"
    /\ port \in Ports
    /\ logs_dir \in {"None", "Some"}
    /\ handler = "Absent"
    /\ proc = "none"
    /\ strong = 0
    /\ spawns = 0
    /\ hState = [h \in Handles |-> "unborn"]
    /\ print_log = [h \in Handles |-> TRUE]
    /\ hClientPrint = [h \in Handles |-> TRUE]
    /\ hThread = [h \in Handles |-> "t1"]
    /\ hUrl = [h \in Handles |-> NoUrl]
    /\ unwound = [h \in Handles |-> FALSE]
    /\ panicking = [t \in Threads |-> FALSE]
    /\ aborted = FALSE
    /\ tdPc = "idle" /\ tdThread = NoThread /\ tdPanicking = FALSE
    /\ dropRuns = 0 /\ killCalls = 0 /\ waitCalls = 0 /\ killResult = "none"
    /\ tdOutput = NoOutput
    /\ logFile = NoFile
    /\ writeTries = 0
    /\ reported = FALSE
    /\ lastCall = NoCall /\ prevCall = NoCall

\* Variant: a failed spawn is tolerated and the fixture goes on without a child.
NewSpawnTolerant ==
    /\ pcNew = "start"
    /\ \E spawned \in BOOLEAN :
         /\ proc' = IF spawned THEN "running" ELSE "none"
         /\ handler' = IF spawned THEN "Some" ELSE "None"
         /\ spawns' = IF spawned THEN spawns + 1 ELSE spawns
    /\ strong' = 1
    /\ pcNew' = "loop"
    /\ UNCHANGED <<current, probes, sleeps, slept, elapsed, lastProbe, port,
                   logs_dir, handleVars, threadVars, tdVars, queryVars, schemaVars>>

\* Arc::new(ExplorerProcess { handler: Some(Command::new(..).spawn()
\*     .expect("failed to execute explorer process")), logs_dir })
NewSpawn ==
    /\ pcNew = "start"
    /\ \E spawned \in BOOLEAN :
         IF spawned
         THEN /\ proc' = "running"
              /\ handler' = "Some"
              /\ strong' = 1
              /\ spawns' = spawns + 1
              /\ pcNew' = "loop"
              /\ UNCHANGED threadVars
         ELSE /\ pcNew' = "panicked"
              /\ panicking' = [panicking EXCEPT !["t1"] = TRUE]
              /\ UNCHANGED <<proc, handler, strong, spawns, aborted>>
    /\ UNCHANGED <<current, probes, sleeps, slept, elapsed, lastProbe, port,
                   logs_dir, handleVars, tdVars, queryVars, schemaVars>>

\* One pass of the loop body: the HEAD request is sent and takes up to
\* MaxProbeTime seconds to come back; an Ok result breaks out of the loop.
BootProbe ==
    /\ pcNew = "loop"
    /\ ~TimeoutReached(current)
    /\ \E outcome \in ProbeOutcomes, took \in 0..MaxProbeTime :
         /\ lastProbe' = outcome
         /\ elapsed' = elapsed + took
         /\ pcNew' = IF SendIsOk(outcome) THEN "build" ELSE "advance"
    /\ probes' = probes + 1
    /\ UNCHANGED <<current, sleeps, slept, port, procVars, handleVars,
                   threadVars, tdVars, queryVars, schemaVars>>

\* wait_bootstrap.advance(): Wait::advance counts the attempt and sleeps.
BootAdvance ==
    /\ pcNew = "advance"
    /\ current' = current + 1
    /\ sleeps' = sleeps + 1
    /\ slept' = slept + WaitSleepSecs
    /\ elapsed' = elapsed + WaitSleepSecs
    /\ pcNew' = "loop"
    /\ UNCHANGED <<probes, lastProbe, port, procVars, handleVars, threadVars,
                   tdVars, queryVars, schemaVars>>

\* Variant: an exhausted budget is treated as a launch failure.
BootTimeoutPanics ==
    /\ pcNew = "loop"
    /\ TimeoutReached(current)
    /\ pcNew' = "panicked"
    /\ panicking' = [panicking EXCEPT !["t1"] = TRUE]
    /\ UNCHANGED <<current, probes, sleeps, slept, elapsed, lastProbe, port,
                   procVars, handleVars, aborted, tdVars, queryVars, schemaVars>>

\* while !wait_bootstrap.timeout_reached(): the loop ends with the budget used up.
BootTimeout ==
    /\ pcNew = "loop"
    /\ TimeoutReached(current)
    /\ pcNew' = "build"
    /\ UNCHANGED <<current, probes, sleeps, slept, elapsed, lastProbe, port,
                   procVars, handleVars, threadVars, tdVars, queryVars, schemaVars>>

\* Explorer { client: GraphQlClient::new(explorer_listen_address), print_log, _process }
NewReturn ==
    /\ pcNew = "build"
    /\ hState' = [hState EXCEPT ![0] = "alive"]
    /\ print_log' = [print_log EXCEPT ![0] = TRUE]
    /\ hClientPrint' = [hClientPrint EXCEPT ![0] = ClientPrintDefault]
    /\ hThread' = [hThread EXCEPT ![0] = "t1"]
    /\ hUrl' = [hUrl EXCEPT ![0] = BaseUrl(ListenAddress(port))]
    /\ pcNew' = "returned"
    /\ UNCHANGED <<current, probes, sleeps, slept, elapsed, lastProbe, port,
                   procVars, unwound, threadVars, tdVars, queryVars, schemaVars>>

InitBoot == NotLaunched /\ SchemaUntouched

BootStep == NewSpawn \/ BootProbe \/ BootAdvance \/ BootTimeout \/ NewReturn

NextBoot == BootStep \/ ProcessExits

\* Explorer::new from the call to its return.
SpecBoot == InitBoot /\ [][NextBoot]_vars

\* Explorer::new runs on one thread with blocking calls that all return
\* (send, sleep), so it keeps taking steps until it returns or panics.
SpecBootFair == SpecBoot /\ WF_vars(BootStep)

\* ------------------------------------------------------------ lifecycle
\* The state in which Explorer::new returned its handle to thread t1: the
\* first probe was answered at once.
Launched ==
    /\ pcNew = "returned"
    /\ current = 0 /\ probes = 1 /\ sleeps = 0 /\ slept = 0 /\ elapsed = 0
    /\ lastProbe = "status_200"
    /\ port \in Ports
    /\ logs_dir \in {"None", "Some"}
    /\ handler = "Some"
    /\ proc = "running"
    /\ strong = 1
    /\ spawns = 1
    /\ hState = [h \in Handles |-> IF h = 0 THEN "alive" ELSE "unborn"]
    /\ print_log = [h \in Handles |-> TRUE]
    /\ hClientPrint = [h \in Handles |-> TRUE]
    /\ hThread = [h \in Handles |-> "t1"]
    /\ hUrl = [h \in Handles |-> IF h = 0 THEN BaseUrl(ListenAddress(port)) ELSE NoUrl]
    /\ unwound = [h \in Handles |-> FALSE]
    /\ panicking = [t \in Threads |-> FALSE]
    /\ aborted = FALSE
    /\ tdPc = "idle" /\ tdThread = NoThread /\ tdPanicking = FALSE
    /\ dropRuns = 0 /\ killCalls = 0 /\ waitCalls = 0 /\ killResult = "none"
    /\ tdOutput = NoOutput
    /\ logFile = NoFile
    /\ writeTries = 0
    /\ reported = FALSE
    /\ lastCall = NoCall /\ prevCall = NoCall

Init == Launched /\ SchemaUntouched

Teardown == TdTake \/ TdKill \/ TdWait \/ TdCheck \/ TdWrite

Next ==
    \/ ProcessExits
    \/ \E t \in Threads : Panic(t)
    \/ \E h \in Handles, t \in Threads : Clone(h, t)
    \/ \E h \in Handles : DisableLogs(h)
    \/ \E h \in Handles : EnableLogs(h)
    \/ \E h \in Handles : Release(h)
    \/ Teardown

Spec == Init /\ [][Next]_vars

\* ExplorerProcess::drop is straight-line blocking code on the thread that
\* released the last handle: once entered it keeps taking steps.
SpecFair == Spec /\ WF_vars(Teardown)

\* The facade in use: a launched handle on which logging is toggled and
\* queries are made.
InitQuery == Launched /\ SchemaUntouched /\ logs_dir = "None" /\ port = "8080"

NextQuery ==
    \/ \E h \in Handles : DisableLogs(h)
    \/ \E h \in Handles : EnableLogs(h)
    \/ \E h \in Handles, m \in Methods :
          \E n \in ArgsOf(m), net \in NetOutcomes : Query(h, m, n, net)
    \/ \E h \in Handles, net \in NetOutcomes : QueryCurrentTime(h, net)

SpecQuery == InitQuery /\ [][NextQuery]_vars

\* The facade shared between threads: handles are cloned, toggled, queried
\* and released, and the last release tears the process down. The query is
\* current_time, answered or failing in transport; a logs_dir is set.
FacadeOutcomes == {TransportFailure, Valid(1)}

InitFacade == Launched /\ SchemaUntouched /\ logs_dir = "Some"

NextFacade ==
    \/ ProcessExits
    \/ \E h \in Handles, t \in Threads : Clone(h, t)
    \/ \E h \in Handles : DisableLogs(h)
    \/ \E h \in Handles : EnableLogs(h)
    \/ \E h \in Handles, net \in FacadeOutcomes : QueryCurrentTime(h, net)
    \/ \E h \in Handles : Release(h)
    \/ Teardown

SpecFacade == InitFacade /\ [][NextFacade]_vars

\* compare_schema called on schema files of any content, with no Explorer
\* launched.
InitSchema ==
    /\ NotLaunched /\ logs_dir = "None" /\ port = "8080"
    /\ files \in [SchemaPaths -> Contents]
    /\ schemaRun = NoRun

NextSchema == \E p \in ActualSchemaPaths : CompareSchema(p)

SpecSchema == InitSchema /\ [][NextSchema]_vars

\* ================================================================ claims
\* ExplorerProcess::drop has returned, unwound or aborted.
TdFinished == tdPc \in {"done", "panicked", "aborted"}
AllReleased == \A h \in Handles : hState[h] = "released"

\* C1: however many clones are made and in whatever order and on whatever
\* threads the handles are released, ExplorerProcess::drop is entered exactly
\* once, after the last handle is gone, and calls kill and wait_with_output
\* exactly once: never twice, and never zero times once all handles are gone.
C1_TeardownExactlyOnce ==
    /\ dropRuns <= 1 /\ killCalls <= 1 /\ waitCalls <= 1
    /\ (AliveHandles = {} => dropRuns = 1)
    /\ (tdPc \in {"wait"} => killCalls = 1)
    /\ (tdPc \in {"check", "write"} \/ TdFinished => killCalls = 1 /\ waitCalls = 1)

\* C1 witness: the original and MaxClones clones, spread over two threads,
\* are all released and the one teardown has completed.
C1_Witness ==
    /\ AllReleased
    /\ \E h \in Handles : hThread[h] = "t2"
    /\ tdPc = "done"
    /\ dropRuns = 1 /\ killCalls = 1 /\ waitCalls = 1

\* C2: while any handle of the launch (original or clone) is alive, the
\* supervisor has not touched the process: the handler is still held, kill
\* was not called and the drop has not started.
C2_AliveHandleKeepsProcess ==
    AliveHandles # {} =>
        /\ handler = "Some"
        /\ killCalls = 0
        /\ proc # "killed"
        /\ tdPc = "idle"

\* C2 witness: the original handle was released while a clone is alive, and
\* the process still runs.
C2_Witness ==
    /\ hState[0] = "released"
    /\ \E h \in Handles : h # 0 /\ hState[h] = "alive"
    /\ proc = "running"

\* C3 as stated: once teardown is over, explorer.log exists if and only if the
\* tearing thread was unwinding and a logs_dir was configured, and the process
\* is terminated.
C3_Original ==
    /\ (tdPc = "done" => (logFile.written <=> (tdPanicking /\ logs_dir = "Some")))
    /\ (TdFinished => proc \in {"killed", "exited"})

\* C3 amended: explorer.log exists if and only if the teardown ran on an
\* unwinding thread, a logs_dir was configured, wait_with_output returned the
\* output and std::fs::write succeeded; std::fs::write is called if and only if
\* the first three hold; in every case the process is terminated once the
\* teardown is over.
C3_LogWrittenIffPanickingDirAndIoOk ==
    /\ logFile.written <=>
           (tdPc = "done" /\ tdPanicking /\ logs_dir = "Some" /\ ~reported)
    /\ (writeTries = 1) <=> (tdPc = "done" /\ tdPanicking /\ logs_dir = "Some")
    /\ writeTries <= 1
    /\ (~logFile.written => logFile = NoFile)
    /\ (TdFinished => proc \in {"killed", "exited"})

\* C3 witness: no logs_dir, the last handle is released by an unwinding
\* thread, teardown is over: no file, process killed.
C3_Witness ==
    /\ tdPc = "done" /\ tdPanicking /\ logs_dir = "None"
    /\ logFile = NoFile /\ proc = "killed"

\* The bounds of the bootstrap wait that hold at every point of Explorer::new.
BootBounds ==
    /\ current <= WaitAttempts
    /\ probes <= WaitAttempts
    /\ sleeps <= WaitAttempts
    /\ slept <= WaitSleepSecs * WaitAttempts
    /\ elapsed <= slept + probes * MaxProbeTime

\* C4 as stated: the wait is over within interval * maxAttempts of elapsed
\* time, after at most maxAttempts probes.
C4_Original ==
    pcNew \in {"build", "returned"} =>
        /\ elapsed <= WaitSleepSecs * WaitAttempts
        /\ probes <= WaitAttempts

\* C4 amended: the bootstrap wait always terminates, after at most maxAttempts
\* probes and at most interval * maxAttempts of time spent sleeping; the time
\* elapsed is that plus the time the probes themselves took.
C4_BootWaitBounded ==
    /\ []BootBounds
    /\ <>(pcNew \in {"returned", "panicked"})

\* C4 witness: the service never answers; the wait ends after maxAttempts
\* probes and more than interval * maxAttempts of elapsed time.
C4_Witness ==
    /\ pcNew = "returned"
    /\ probes = WaitAttempts /\ lastProbe = "transport_error"
    /\ slept = WaitSleepSecs * WaitAttempts
    /\ elapsed > WaitSleepSecs * WaitAttempts

\* Every probe failed and the budget is used up.
BudgetExhausted == lastProbe = "transport_error" /\ current = WaitAttempts

\* C5: with the budget exhausted and no probe answered, Explorer::new does not
\* panic and returns a live handle that owns the process, which the
\* supervisor has not killed.
C5_ExhaustedBudgetStillReturnsHandle ==
    /\ (BudgetExhausted => pcNew \in {"loop", "build", "returned"} /\ ~panicking["t1"])
    /\ (BudgetExhausted /\ pcNew = "returned" =>
            /\ hState[0] = "alive"
            /\ strong = 1
            /\ handler = "Some"
            /\ killCalls = 0 /\ proc \in {"running", "exited"}
            /\ ~aborted)

\* C5 witness: all probes failed, the handle was returned, the process runs.
C5_Witness ==
    /\ BudgetExhausted /\ pcNew = "returned" /\ probes = WaitAttempts
    /\ hState[0] = "alive" /\ proc = "running"

\* C6: the probe that gets a response, whatever its status, ends the wait at
\* once (no probe and no sleep follows it), and every sleep directly follows
\* a probe that failed at transport level.
C6_FirstResponseEndsWait ==
    [][ /\ (lastProbe \in ProbeResponses =>
               probes' = probes /\ sleeps' = sleeps /\ slept' = slept
               /\ lastProbe' = lastProbe)
        /\ (lastProbe' \in ProbeResponses /\ lastProbe' # lastProbe =>
               pcNew' = "build")
        /\ (sleeps' # sleeps =>
               /\ lastProbe = "transport_error" /\ pcNew = "advance"
               /\ sleeps' = sleeps + 1 /\ slept' = slept + WaitSleepSecs
               /\ probes' = probes)
      ]_vars

\* C6 witness: the second probe was answered with a 500 and the wait ended
\* after one sleep.
C6_Witness ==
    /\ pcNew = "returned" /\ lastProbe = "status_500"
    /\ probes = 2 /\ sleeps = 1

\* A call of a facade method has been recorded.
Made(c) == c.method # "none"
SameInputs(c, d) ==
    /\ c.method = d.method /\ c.arg = d.arg /\ c.net = d.net /\ c.url = d.url

\* C7 as stated: a typed query method answers a body that is not the JSON
\* envelope with SerializationError and a transport failure with ClientError.
C7_ErrorKinds ==
    lastCall.method \in TypedMethods =>
        /\ (lastCall.net = Malformed =>
               lastCall.result.kind = "Err"
               /\ lastCall.result.error = "SerializationError")
        /\ (lastCall.net = TransportFailure =>
               lastCall.result.kind = "Err"
               /\ lastCall.result.error = "ClientError")

\* C8: two calls of the same method with the same parameters that get the
\* same answer from the service return the same result and send the same
\* HTTP request, whether logging was on or off for either of them.
C8_LoggingDoesNotAlterResult ==
    Made(lastCall) /\ Made(prevCall) /\ SameInputs(lastCall, prevCall) =>
        /\ lastCall.result = prevCall.result
        /\ lastCall.requests = prevCall.requests

\* C8 witness: the same stake_pools call answered with the same payload, once
\* with logging off and once with logging on.
C8_Witness ==
    /\ Made(lastCall) /\ Made(prevCall) /\ SameInputs(lastCall, prevCall)
    /\ lastCall.method = "stake_pools" /\ lastCall.result.kind = "Ok"
    /\ lastCall.log /\ ~prevCall.log
    /\ lastCall.events # prevCall.events

\* The "run" steps (GraphQlClient::run) among the events of a call.
Runs(c) == {i \in 1..Len(c.events) : c.events[i] = "run"}

NoRetry(c) ==
    Made(c) =>
        /\ Len(c.requests) = 1
        /\ Cardinality(Runs(c)) = 1
        /\ (c.net = TransportFailure =>
               /\ c.result.kind \in {"Err", "Panic"}
               /\ (c.result.kind = "Err" => c.result.error = "ClientError"))

\* C9: every call of a facade method (current_time included) sends exactly
\* one HTTP request, and a failed request is answered with the error, not
\* with a second attempt.
C9_NoRetryOnQuery == NoRetry(lastCall) /\ NoRetry(prevCall)

\* C9 witness: a query whose request failed at transport level returned
\* ClientError after its one request.
C9_Witness ==
    /\ lastCall.method = "epoch" /\ lastCall.net = TransportFailure
    /\ lastCall.result.kind = "Err" /\ Len(lastCall.requests) = 1

\* C10: current_time sends the one last_block query; any error of it panics
\* the calling thread and no value is returned; on success the value is the
\* block date of that response.
C10_CurrentTimePanicsOnError ==
    lastCall.method = "current_time" =>
        /\ Len(lastCall.requests) = 1
        /\ lastCall.requests[1].body.query = "last_block"
        /\ IF lastCall.net.transport = "ok" /\ lastCall.net.json
           THEN /\ lastCall.result.kind = "Value"
                /\ lastCall.result.date =
                       BlockDateOf([decoded |-> TRUE, body |-> lastCall.net.payload])
           ELSE /\ lastCall.result.kind = "Panic"
                /\ panicking["t1"]

\* C10 witness: current_time on a response that is not the JSON envelope
\* panicked the calling thread.
C10_Witness ==
    /\ lastCall.method = "current_time" /\ lastCall.net = Malformed
    /\ lastCall.result.kind = "Panic" /\ panicking["t1"]

\* C11: when the explorer binary cannot be started, Explorer::new panics on
\* the spot: no handle is returned, no probe is sent, and there is no
\* ExplorerProcess (no Arc, no handler) whose drop could run later.
C11_SpawnFailureAborts ==
    /\ (pcNew # "start" /\ proc = "none" => pcNew = "panicked")
    /\ (pcNew = "panicked" =>
           /\ panicking["t1"]
           /\ proc = "none" /\ handler = "Absent" /\ strong = 0
           /\ \A h \in Handles : hState[h] = "unborn"
           /\ probes = 0 /\ sleeps = 0
           /\ dropRuns = 0 /\ killCalls = 0)

\* C11 witness: the spawn failed and Explorer::new panicked.
C11_Witness == pcNew = "panicked" /\ proc = "none" /\ panicking["t1"]

\* C12: a write of explorer.log that fails is reported on stderr and nothing
\* more: the drop returns normally with the process terminated, the test
\* process is not aborted, and the thread keeps unwinding its original panic.
C12_WriteFailureNotEscalated ==
    (writeTries = 1 /\ ~logFile.written) =>
        /\ reported
        /\ tdPc = "done"
        /\ ~aborted
        /\ proc \in {"killed", "exited"}
        /\ tdPanicking /\ panicking[tdThread]

\* C12 witness: the write failed during a panic-time teardown.
C12_Witness ==
    /\ writeTries = 1 /\ ~logFile.written /\ reported
    /\ tdPc = "done" /\ proc = "killed"

\* The captured stream s is among the blocks of the file.
FileHolds(s) == \E i \in 1..Len(logFile.content) : logFile.content[i] = tdOutput[s]

\* C13 as stated: the file written at panic-time teardown holds the output
\* the supervisor captured, standard output and standard error.
C13_Original ==
    logFile.written => FileHolds("stdout") /\ FileHolds("stderr")

\* C13 amended: the supervisor captures both standard output and standard
\* error of the process, and the file written at panic-time teardown holds
\* exactly the captured standard output; the captured standard error is not
\* persisted.
C13_LogHoldsCapturedStdout ==
    /\ (tdPc \in {"check", "write", "done"} => tdOutput = ProcessOutput)
    /\ (logFile.written =>
           /\ logFile.content = <<ProcessOutput.stdout>>
           /\ tdOutput = ProcessOutput
           /\ tdPanicking /\ logs_dir = "Some")

\* C13 witness: explorer.log was written after both streams were collected.
C13_Witness ==
    /\ logFile.written /\ logFile.content = <<"stdout bytes">>
    /\ tdOutput.stderr = "stderr bytes"

\* C17: teardown kills first, then waits and collects the output, and only
\* then may write explorer.log: the write is never reached, and the file never
\* exists, while the process runs or before kill and wait were called.
C17_TeardownOrder ==
    /\ (waitCalls = 1 => killCalls = 1)
    /\ (killCalls = 1 => handler = "None" /\ proc \in {"killed", "exited"})
    /\ (tdPc \in {"check", "write"} \/ writeTries > 0 \/ logFile.written =>
           /\ killCalls = 1 /\ waitCalls = 1
           /\ proc \in {"killed", "exited"}
           /\ tdOutput = ProcessOutput)

\* C17 witness: the file was written after one kill and one wait, the
\* process having been killed.
C17_Witness ==
    /\ logFile.written /\ killCalls = 1 /\ waitCalls = 1 /\ proc = "killed"

\* C14: a clone starts with the print_log value its source has at that
\* moment; afterwards enable_logs / disable_logs on one handle changes the
\* flag of that handle only, while all live handles share the one process
\* (one Arc, its strong count the number of live handles).
C14_CloneCopiesFlagThenIndependent ==
    [][ /\ \A h, g \in Handles :
             (h # g /\ hState[h] = "alive" /\ hState'[h] = "alive"
              /\ print_log'[h] # print_log[h]) =>
                 print_log'[g] = print_log[g]
        /\ \A g \in Handles :
             (hState[g] = "unborn" /\ hState'[g] = "alive") =>
                 \E h \in Handles :
                     /\ hState[h] = "alive" /\ print_log'[g] = print_log[h]
                     /\ \A k \in Handles \ {g} : print_log'[k] = print_log[k]
        /\ strong' = Cardinality({h \in Handles : hState'[h] = "alive"})
      ]_vars

\* C14 witness: two live handles of the launch hold different flags and the
\* process they share is still held.
C14_Witness ==
    /\ \E h, g \in AliveHandles : print_log[h] /\ ~print_log[g]
    /\ strong >= 2 /\ handler = "Some"

\* C19: whether explorer.log is written depends on the unwinding state of the
\* thread that releases the last handle only: when that thread is not
\* unwinding, nothing is written, also when another handle was dropped
\* earlier by an unwinding thread and a logs_dir is configured.
C19_OnlyLastReleaserCounts ==
    (dropRuns = 1 /\ ~tdPanicking) =>
        /\ ~logFile.written
        /\ writeTries = 0
        /\ tdPc # "write"

\* C19 witness: a clone was dropped by an unwinding thread while another
\* handle lived, the last handle was released by a thread that was not
\* unwinding, teardown completed and no file exists, with a logs_dir.
C19_Witness ==
    /\ logs_dir = "Some"
    /\ \E h \in Handles : hState[h] = "released" /\ unwound[h]
    /\ tdPc = "done" /\ ~tdPanicking /\ ~panicking[tdThread]
    /\ ~logFile.written /\ proc = "killed"

\* C20 as stated: when kill reported an error, teardown ends without raising
\* a failure of its own.
C20_Original ==
    (killResult = "err" /\ TdFinished) => tdPc = "done"

\* C20 amended: after the last handle is released teardown always comes to
\* an end with the process exited, also when kill reports an error: the
\* result of kill is ignored and the drop goes on to wait for the exit. The
\* only failure teardown raises of its own is the unwrap of a failed
\* wait_with_output.
C20_TeardownEnds ==
    /\ [](AliveHandles = {} => <>(TdFinished /\ proc \in {"killed", "exited"}))
    /\ [](TdFinished /\ tdPc # "done" =>
              killCalls = 1 /\ waitCalls = 1 /\ tdOutput = NoOutput)
    /\ [](killResult = "err" => killCalls = 1 /\ tdPc # "kill")

\* C20 witness: kill reported an error for a child that had already exited,
\* and teardown completed.
C20_Witness ==
    /\ killResult = "err" /\ tdPc = "done" /\ proc = "exited" /\ waitCalls = 1

\* The positions of step e among the events of a call.
At(c, e) == {i \in 1..Len(c.events) : c.events[i] = e}
Before(c, e, f) == \A i \in At(c, e), j \in At(c, f) : i < j

StepOrder(c) ==
    c.method \in TypedMethods \cup {"current_time"} =>
        /\ \A e \in {"build", "print_request", "run", "decode", "print_response"} :
               Cardinality(At(c, e)) <= 1
        /\ At(c, "build") = {1}
        /\ Cardinality(At(c, "run")) = 1 /\ Len(c.requests) = 1
        /\ (At(c, "print_request") # {} <=> c.log)
        /\ (At(c, "decode") # {} <=> c.net.transport = "ok")
        /\ (At(c, "print_response") # {} <=>
               c.log /\ c.net.transport = "ok" /\ c.net.json)
        /\ Before(c, "build", "print_request")
        /\ Before(c, "print_request", "run")
        /\ Before(c, "run", "decode")
        /\ Before(c, "decode", "print_response")
        /\ (At(c, "print_response") # {} => c.result.kind \in {"Ok", "Value"})
        /\ (c.net.transport = "fail" =>
               c.events[Len(c.events)] = "run"
               /\ c.result.kind \in {"Err", "Panic"})
        /\ (c.net.transport = "ok" /\ ~c.net.json =>
               c.events[Len(c.events)] = "decode"
               /\ c.result.kind \in {"Err", "Panic"})

C16_CompareSchema ==
    [][ LET p == schemaRun'.path
        IN  /\ \A q \in ActualSchemaPaths : files'[q] = files[q]
            /\ IF files[p] = files[ExpectedSchemaPath]
               THEN files' = files /\ ~schemaRun'.warned
               ELSE files'[ExpectedSchemaPath] = files[p] /\ schemaRun'.warned
            /\ files'[ExpectedSchemaPath] = files'[p]
            /\ schemaRun'.outcome = "returned"
            /\ (schemaRun.path = p => files' = files /\ ~schemaRun'.warned)
      ]_vars

\* C16 witness: a call that found a discrepancy and replaced the expected
\* file was repeated at once and found none; the files are equal and hold
\* the two-byte schema of the actual file.
C16_Witness ==
    /\ schemaRun.path = "target/schema.graphql"
    /\ schemaRun.before = schemaRun.path /\ schemaRun.beforeWarned
    /\ ~schemaRun.warned /\ schemaRun.outcome = "returned"
    /\ files[ExpectedSchemaPath] = <<"a", "b">>
    /\ files["target/schema.graphql"] = <<"a", "b">>
    /\ files["explorer/schema.graphql"] = <<"b">>

\* C15: a launch has one explorer process, spawned once in Explorer::new and
\* owned by the one Arc all live handles share; and for every handle, the
\* original or a clone, uri() is the address chosen in Explorer::new,
\* whatever queries, logging toggles, clones and releases have happened.
C15_OneProcessFixedUri ==
    /\ spawns = 1
    /\ strong = Cardinality(AliveHandles)
    /\ (AliveHandles # {} =>
           handler = "Some" /\ proc \in {"running", "exited"} /\ dropRuns = 0)
    /\ (proc = "running" /\ handler # "Some" => tdPc = "kill")
    /\ \A h \in Handles :
          hState[h] # "unborn" => Uri(h) = BaseUrl(ListenAddress(port))

\* C15 witness: on port 8081 the original was released after a clone was
\* made; the clone, with logging switched off, made a query that was
\* answered after one that failed, and a second clone lives on another
\* thread; both answer uri() with the address of the launch.
C15_Witness ==
    /\ port = "8081" /\ hState[0] = "released"
    /\ hState[1] = "alive" /\ hState[2] = "alive" /\ hThread[1] # hThread[2]
    /\ ~print_log[1] /\ print_log[2]
    /\ lastCall.method = "current_time" /\ lastCall.result.kind = "Value"
    /\ prevCall.method = "current_time" /\ prevCall.result.kind = "Value"
    /\ Uri(1) = BaseUrl(ListenAddress("8081")) /\ Uri(2) = Uri(1)
    /\ proc = "running" /\ spawns = 1

====
